---- MODULE Spec2Model ----
(***************************************************************************)
(* Hierarchical radiosity solver (lib/hierarchical.h).                     *)
(*                                                                         *)
(* The patch hierarchy is an arena `nodes`: a sequence of Quadnode records *)
(* addressed by their position, the model's form of a pointer; 0 is the   *)
(* null pointer.  The vector nodes_ is the block of `nroots` cells behind  *)
(* `base`; the other cells are the heap nodes owned by `children` and, in  *)
(* `freed`, the buffers nodes_ has left.                                   *)
(* Scalars (areas, form factors, colour channels, thresholds) are exact    *)
(* rationals <<numerator, denominator>>.                                   *)
(***************************************************************************)
EXTENDS Integers, Sequences, FiniteSets, TLC

\* ------------------------------------------------------------------------
\* Bounds of the model
\* ------------------------------------------------------------------------

\* largest number of root triangles in a scene
MaxRoots == 3

\* largest number of patches the area floor allows a scene to grow to
MaxPatches == 7

\* the inner iteration cap max_iterations of the runs
Iterations == 1

\* calls of compute() on one solver
MaxComputes == 2

\* number of patches up to which the runs of a scene with a root triangle that
\* can be subdivided twice are followed
MaxDeepPatches == 10

\* ------------------------------------------------------------------------
\* Exact arithmetic
\* ------------------------------------------------------------------------

Abs(x) == IF x < 0 THEN -x ELSE x

RECURSIVE GCD(_, _)
GCD(a, b) == IF b = 0 THEN a ELSE GCD(b, a % b)

Norm(n, d) == LET g == GCD(Abs(n), d) IN <<n \div g, d \div g>>

Rat(n) == <<n, 1>>
RAdd(x, y) == Norm(x[1] * y[2] + y[1] * x[2], x[2] * y[2])
RMul(x, y) == Norm(x[1] * y[1], x[2] * y[2])
RDiv(x, y) == Norm(x[1] * y[2], x[2] * y[1])
RLt(x, y) == x[1] * y[2] < y[1] * x[2]
RGt(x, y) == RLt(y, x)

\* Color: three channels r, g, b
Color == <<Rat(0), Rat(0), Rat(0)>>
CAdd(c, e) == [k \in 1..3 |-> RAdd(c[k], e[k])]
CMul(c, e) == [k \in 1..3 |-> RMul(c[k], e[k])]
CScale(x, c) == [k \in 1..3 |-> RMul(x, c[k])]
CDiv(c, x) == [k \in 1..3 |-> RDiv(c[k], x)]

RECURSIVE SumSeq(_)
SumSeq(s) == IF s = <<>> THEN 0 ELSE Head(s) + SumSeq(Tail(s))

\* ------------------------------------------------------------------------
\* Inputs: the scene (KDTree triangles) and the constructor's parameters
\* ------------------------------------------------------------------------

Areas == {Rat(1), Rat(4)}
Materials ==
    { [emissive |-> <<Rat(0), Rat(1), Rat(0)>>, diffuse |-> Color],
      [emissive |-> Color, diffuse |-> <<Rat(1), Rat(1), Rat(1)>>] }
Triangles == [area : Areas, emissive : {m.emissive : m \in Materials},
              diffuse : {m.diffuse : m \in Materials}]
SceneTriangles ==
    {t \in Triangles : [emissive |-> t.emissive, diffuse |-> t.diffuse] \in Materials}

FEpsVals == {Rat(1)}
AEpsVals == {Rat(1), Rat(2)}
BFEpsVals == {Rat(2)}
FormFactorVals == {Rat(1)}

\* results the point-sample geometry can produce (solid angle in units of pi)
CosVals == {-1, 1}
OmegaVals == {Rat(1), Rat(2)}

\* number of patches the subtree of a root of area a can grow to under floor e
RECURSIVE TreeSize(_, _)
TreeSize(a, e) ==
    IF RLt(RDiv(a, Rat(4)), e) THEN 1 ELSE 1 + 4 * TreeSize(RDiv(a, Rat(4)), e)

\* triangle i of the scene; build_mesh gives it face i
WithFace(s) ==
    [i \in 1..Len(s) |-> [face |-> i - 1, area |-> s[i].area,
                          emissive |-> s[i].emissive, diffuse |-> s[i].diffuse]]

\* scenes with one emitter, small enough for the patch bound
Scenes(e) ==
    {WithFace(s) : s \in
        {s \in UNION {[1..n -> SceneTriangles] : n \in 1..MaxRoots} :
            /\ Cardinality({i \in 1..Len(s) : s[i].emissive # Color}) = 1
            /\ SumSeq([i \in 1..Len(s) |-> TreeSize(s[i].area, e)]) <= MaxPatches}}

VARIABLES
    tree,             \* KDTree triangles (immutable borrow)
    F_eps, A_eps, BF_eps, max_iterations,
    form,             \* result of the form-factor oracle for the scene
    nodes,            \* arena of Quadnodes
    nroots,           \* nodes_.size()
    subdivided_tris,  \* subdivided_tris_
    mesh,             \* number of faces of mesh_
    pc,               \* position of compute()
    n, qi,            \* loop indices of the seeding loops of compute()
    node_stack,       \* refine(): explicit work stack
    iteration,        \* solve_system(): remaining iterations
    rl_stack,         \* refine_links(Quadnode&): call stack
    rl_n,             \* refine_links(): root index
    refined,          \* refine_links(): result so far
    base,             \* nodes_.data(): nodes_[i] is the arena cell base + i + 1
    freed,            \* arena cells of buffers that nodes_ has left and freed
    computes,         \* calls of compute() so far
    stale_read,       \* history: subdivide read its reference `tri` into
                      \* subdivided_tris_ after the vector had grown
    rad_first,        \* history: radiosity() when the first compute() returned
    next_lid,         \* history: serial number of the next link created
    est_below,        \* history: some turn of refine found both estimates below F_eps
    calls,            \* history: (p, q) of every refine call of compute()
    examined,         \* history: links examined in the current pass
    pass_links,       \* history: links present when the current pass began
    passes,           \* history: completed refine_links passes
    last              \* history: what the last step did

vars == <<tree, F_eps, A_eps, BF_eps, max_iterations, form, nodes, nroots,
          subdivided_tris, mesh, pc, n, qi, node_stack, iteration, rl_stack,
          rl_n, refined, base, freed, computes, stale_read, rad_first, next_lid,
          est_below, calls, examined, pass_links, passes, last>>

scene == <<tree, F_eps, A_eps, BF_eps, max_iterations, form>>

\* what only a call of compute() changes
solver == <<base, freed, computes, rad_first>>

num_triangles == Len(tree)

\* ------------------------------------------------------------------------
\* Quadnode, Linknode and the small helpers
\* ------------------------------------------------------------------------

NoChildren == <<>>

is_leaf(p) == p.children = NoChildren

\* the identifier without the count of the root triangles
next_triangle_id_no_offset(tris) == Len(tris)

next_triangle_id(tris) == num_triangles + Len(tris)

is_root(p) == p.tri_id < num_triangles

get_triangle(tris, p) ==
    IF is_root(p) THEN tree[p.root_tri_id + 1]
    ELSE tris[p.tri_id - num_triangles + 1]

estimate_form_factor(cos_theta, omega_q) ==
    IF cos_theta < 0 THEN Rat(0) ELSE RMul(Rat(cos_theta), omega_q)

\* the form-factor oracle of the scene index
form_factor(tri_p, tri_q, exclude_root_id) == form

\* the mesh registry: four new faces for one
subdivide4(m, face) == [faces |-> [i \in 1..4 |-> m + i], mesh |-> m + 4]

\* turns 1..4 of the loop of subdivide; a memory that keeps its old bytes
StillIntact == 5

\* what the dangling reference `tri` can give: the old bytes in all four turns,
\* or other data from some turn on
OverwrittenFrom == {2, 3, 4, StillIntact}

\* a triangle read from memory that holds other data: copy_tri takes the
\* material from it, the corners come from the mesh
JunkColor == <<Rat(9), Rat(9), Rat(9)>>
Overwritten(tri) == [tri EXCEPT !.emissive = JunkColor, !.diffuse = JunkColor]

\* the part of the solver's state that subdivide and link work on
\* (overwritten_from: the turn of subdivide's loop from which the memory behind
\* a reference that the growth of subdivided_tris_ left dangling holds other
\* data; StillIntact when it never does)
Heap == [nodes |-> nodes, tris |-> subdivided_tris, mesh |-> mesh,
         next_lid |-> next_lid, stale |-> stale_read,
         overwritten_from |-> StillIntact, ok |-> TRUE]

\* a new quadnode that keeps the whole area of p
ChildNodeWholeArea(node, p, tri_id, face, p_area_4) ==
    [root_tri_id |-> node.root_tri_id,
     tri_id |-> tri_id,
     face_id |-> face,
     area |-> node.area,
     rad_gather |-> Color,
     rad_shoot |-> node.rad_shoot,
     emission |-> node.emission,
     rho |-> node.rho,
     parent |-> p,
     children |-> NoChildren,
     gathering_from |-> <<>>]

\* a new quadnode under p
ChildNode(node, p, tri_id, face, p_area_4) ==
    [root_tri_id |-> node.root_tri_id,
     tri_id |-> tri_id,
     face_id |-> face,
     area |-> p_area_4,
     rad_gather |-> Color,
     rad_shoot |-> node.rad_shoot,
     emission |-> node.emission,
     rho |-> node.rho,
     parent |-> p,
     children |-> NoChildren,
     gathering_from |-> <<>>]

\* the corners of the face (a quarter of the parent's area) with tri's material
create_triangle_from_face(tri, face) ==
    [face |-> face, area |-> RDiv(tri.area, Rat(4)),
     emissive |-> tri.emissive, diffuse |-> tri.diffuse]

\* the loop of subdivide: child i is created, then its triangle is stored
RECURSIVE SubdivideLoop(_, _, _, _, _, _)
SubdivideLoop(h, p, i, faces, tri, p_area_4) ==
    IF i > 4 THEN h
    ELSE LET qnode == ChildNode(h.nodes[p], p, next_triangle_id(h.tris), faces[i],
                                 p_area_4)
             \* tri refers to an element of subdivided_tris_ when p is no root,
             \* and the turns before this one have appended to that vector
             stale == i > 1 /\ ~is_root(h.nodes[p])
             read == IF stale /\ i >= h.overwritten_from THEN Overwritten(tri) ELSE tri
             child_tri == create_triangle_from_face(read, faces[i])
             id == Len(h.nodes) + 1
         IN SubdivideLoop(
               [h EXCEPT !.nodes = Append([@ EXCEPT ![p].children = Append(@, id)], qnode),
                         !.tris = Append(@, child_tri),
                         !.stale = @ \/ stale],
               p, i + 1, faces, tri, p_area_4)

\* subdivide with the floor tested on the area of p, not on its quarter
subdivide_whole_area(h, p) ==
    LET node == h.nodes[p]
        p_area_4 == RDiv(node.area, Rat(4))
    IN IF ~is_leaf(node) THEN [h EXCEPT !.ok = TRUE]
       ELSE IF RLt(node.area, A_eps) THEN [h EXCEPT !.ok = FALSE]
       ELSE LET sub == subdivide4(h.mesh, node.face_id)
                tri == get_triangle(h.tris, node)
            IN [SubdivideLoop([h EXCEPT !.mesh = sub.mesh], p, 1, sub.faces, tri, p_area_4)
                   EXCEPT !.ok = TRUE]

\* subdivide without the test for a patch that is already subdivided
subdivide_again(h, p) ==
    LET node == h.nodes[p]
        p_area_4 == RDiv(node.area, Rat(4))
    IN IF RLt(p_area_4, A_eps) THEN [h EXCEPT !.ok = FALSE]
       ELSE LET sub == subdivide4(h.mesh, node.face_id)
                tri == get_triangle(h.tris, node)
            IN [SubdivideLoop([h EXCEPT !.mesh = sub.mesh], p, 1, sub.faces, tri, p_area_4)
                   EXCEPT !.ok = TRUE]

subdivide(h, p) ==
    LET node == h.nodes[p]
        p_area_4 == RDiv(node.area, Rat(4))
    IN IF ~is_leaf(node) THEN [h EXCEPT !.ok = TRUE]
       ELSE IF RLt(p_area_4, A_eps) THEN [h EXCEPT !.ok = FALSE]
       ELSE LET sub == subdivide4(h.mesh, node.face_id)
                tri == get_triangle(h.tris, node)
            IN [SubdivideLoop([h EXCEPT !.mesh = sub.mesh], p, 1, sub.faces, tri, p_area_4)
                   EXCEPT !.ok = TRUE]

link(h, p, q) ==
    LET tri_p == get_triangle(h.tris, h.nodes[p])
        tri_q == get_triangle(h.tris, h.nodes[q])
        F_pq == form_factor(tri_p, tri_q, h.nodes[q].root_tri_id)
    IN [h EXCEPT !.nodes[p].gathering_from =
                     Append(@, [q |-> q, form_factor |-> F_pq, lid |-> h.next_lid]),
                 !.next_lid = @ + 1]

\* the loop over the children that stops before the last child
RECURSIVE LinkAllButLast(_, _)
LinkAllButLast(h, pairs) ==
    IF Len(pairs) <= 1 THEN h
    ELSE LinkAllButLast(link(h, Head(pairs)[1], Head(pairs)[2]), Tail(pairs))

\* link(a, b) for every pair of a sequence of pairs, in order
RECURSIVE LinkAll(_, _)
LinkAll(h, pairs) ==
    IF pairs = <<>> THEN h
    ELSE LinkAll(link(h, Head(pairs)[1], Head(pairs)[2]), Tail(pairs))

\* the solver after construction, for a set of pairs of A_eps and a scene
InitWith(inputs) ==
    /\ \E in \in inputs :
          /\ A_eps = in[1]
          /\ tree = in[2]
    /\ F_eps \in FEpsVals
    /\ BF_eps \in BFEpsVals
    /\ max_iterations = Iterations
    /\ form \in FormFactorVals
    /\ nodes = <<>>
    /\ nroots = 0
    /\ subdivided_tris = <<>>
    /\ mesh = 0
    /\ pc = "new"
    /\ n = 0
    /\ qi = 0
    /\ node_stack = <<>>
    /\ iteration = 0
    /\ rl_stack = <<>>
    /\ rl_n = 0
    /\ refined = FALSE
    /\ base = 0
    /\ freed = {}
    /\ computes = 0
    /\ stale_read = FALSE
    /\ rad_first = <<>>
    /\ next_lid = 1
    /\ est_below = FALSE
    /\ calls = <<>>
    /\ examined = <<>>
    /\ pass_links = {}
    /\ passes = 0
    /\ last = [op |-> "none"]

Init == InitWith(UNION {{<<e, t>> : t \in Scenes(e)} : e \in AEpsVals})

\* ------------------------------------------------------------------------
\* compute(): node creation and the seeding loops
\* ------------------------------------------------------------------------

\* the arena cell of nodes_[i - 1]
Root(i) == base + i

RootNode(i) ==
    [root_tri_id |-> i, tri_id |-> i, face_id |-> i,
     area |-> tree[i + 1].area,
     rad_gather |-> Color,
     rad_shoot |-> tree[i + 1].emissive,
     emission |-> tree[i + 1].emissive,
     rho |-> tree[i + 1].diffuse,
     parent |-> 0, children |-> NoChildren, gathering_from |-> <<>>]

\* a Quadnode that the growth of nodes_ has moved to the new buffer: the move
\* takes the children and the links with it
MovedFrom(node) == [node EXCEPT !.children = NoChildren, !.gathering_from = <<>>]

\* mesh_ = build_mesh(...) and the loop that appends one root per triangle to
\* nodes_.  nodes_ is not cleared: the roots of an earlier call stay in front.
\* A buffer that emplace_back has grown holds less than twice its elements, so
\* appending as many roots again moves nodes_ to a new buffer and frees the old.
CreateNodes ==
    /\ pc = "new"
    /\ mesh' = num_triangles
    /\ LET old == base + 1 .. base + nroots
       IN /\ nodes' = [a \in DOMAIN nodes |->
                          IF a \in old THEN MovedFrom(nodes[a]) ELSE nodes[a]]
                        \o [i \in 1..nroots |-> nodes[base + i]]
                        \o [i \in 1..num_triangles |-> RootNode(i - 1)]
          /\ freed' = freed \cup old
    /\ base' = Len(nodes)
    /\ nroots' = nroots + num_triangles
    /\ computes' = computes + 1
    /\ pc' = "seed"
    /\ n' = 1
    /\ qi' = 1
    /\ last' = [op |-> "create"]
    /\ UNCHANGED <<scene, rad_first, subdivided_tris, node_stack, iteration, rl_stack, rl_n,
                   refined, next_lid, stale_read, est_below, calls, examined, pass_links, passes>>

\* the seeding loops without the test of the root triangles
SeedPairsAnyRoot ==
    {pq \in (1..nroots) \X (1..nroots) : pq[1] > n \/ (pq[1] = n /\ pq[2] >= qi)}

\* the seeding loops with the inner loop starting behind p
SeedPairsUnordered ==
    {pq \in (1..nroots) \X (1..nroots) :
        /\ pq[1] > n \/ (pq[1] = n /\ pq[2] >= qi)
        /\ pq[2] > pq[1]
        /\ nodes[Root(pq[1])].root_tri_id # nodes[Root(pq[2])].root_tri_id}

\* the pairs (n, q) the two seeding loops still have to visit, in loop order
SeedPairs ==
    {pq \in (1..nroots) \X (1..nroots) :
        /\ pq[1] > n \/ (pq[1] = n /\ pq[2] >= qi)
        /\ nodes[Root(pq[1])].root_tri_id # nodes[Root(pq[2])].root_tri_id}

PairBefore(a, b) == a[1] < b[1] \/ (a[1] = b[1] /\ a[2] <= b[2])

\* the loops advance to the next pair of different root triangles and call refine
SeedRefine ==
    /\ pc = "seed"
    /\ SeedPairs # {}
    /\ LET pq == CHOOSE a \in SeedPairs : \A b \in SeedPairs : PairBefore(a, b)
       IN /\ n' = pq[1]
          /\ qi' = pq[2] + 1
          /\ node_stack' = <<<<Root(pq[1]), Root(pq[2])>>>>
          /\ calls' = Append(calls, <<Root(pq[1]), Root(pq[2])>>)
          /\ last' = [op |-> "call_refine", p |-> Root(pq[1]), q |-> Root(pq[2])]
    /\ pc' = "refine"
    /\ UNCHANGED <<scene, solver, nodes, nroots, subdivided_tris, mesh, iteration, rl_stack,
                   rl_n, refined, next_lid, stale_read, est_below, examined, pass_links, passes>>

SeedDone ==
    /\ pc = "seed"
    /\ SeedPairs = {}
    /\ pc' = "solve"
    /\ iteration' = max_iterations
    /\ n' = nroots + 1
    /\ qi' = 1
    /\ last' = [op |-> "seeded"]
    /\ UNCHANGED <<scene, solver, nodes, nroots, subdivided_tris, mesh, node_stack, rl_stack,
                   rl_n, refined, next_lid, stale_read, est_below, calls, examined, pass_links, passes>>

\* ------------------------------------------------------------------------
\* refine(p, q): one turn of the loop over the work stack
\* ------------------------------------------------------------------------

\* the outcomes of the reads through `tri` that a call of subdivide can make in
\* this state: they differ only when a patch below the roots can be subdivided
StaleReads ==
    IF \E p \in DOMAIN nodes :
          /\ ~is_root(nodes[p])
          /\ is_leaf(nodes[p])
          /\ ~RLt(RDiv(nodes[p].area, Rat(4)), A_eps)
    THEN OverwrittenFrom ELSE {StillIntact}

Top(s) == s[Len(s)]
Pop(s) == SubSeq(s, 1, Len(s) - 1)

SetHeap(h) ==
    /\ nodes' = h.nodes
    /\ subdivided_tris' = h.tris
    /\ mesh' = h.mesh
    /\ next_lid' = h.next_lid
    /\ stale_read' = h.stale

\* refine without the link that follows a refused subdivision
refine_no_link_on_refusal(h, p, q, F_pq, F_qp) ==
    IF RLt(F_pq, F_eps) /\ RLt(F_qp, F_eps)
    THEN [h |-> link(h, p, q), push |-> <<>>, did |-> "link"]
    ELSE IF RLt(F_qp, F_pq)
    THEN LET s == subdivide(h, q)
         IN IF s.ok
            THEN [h |-> s, push |-> [i \in 1..4 |-> <<p, s.nodes[q].children[i]>>],
                  did |-> "subdivide_q"]
            ELSE [h |-> s, push |-> <<>>, did |-> "refused_q"]
    ELSE LET s == subdivide(h, p)
         IN IF s.ok
            THEN [h |-> s, push |-> [i \in 1..4 |-> <<s.nodes[p].children[i], q>>],
                  did |-> "subdivide_p"]
            ELSE [h |-> s, push |-> <<>>, did |-> "refused_p"]

\* refine that links the pair and recurses on the children as well
refine_link_and_recurse(h, p, q, F_pq, F_qp) ==
    IF RLt(F_pq, F_eps) /\ RLt(F_qp, F_eps)
    THEN [h |-> link(h, p, q), push |-> <<>>, did |-> "link"]
    ELSE IF RLt(F_qp, F_pq)
    THEN LET s == subdivide(h, q)
         IN IF s.ok
            THEN [h |-> link(s, p, q),
                  push |-> [i \in 1..4 |-> <<p, s.nodes[q].children[i]>>],
                  did |-> "subdivide_q"]
            ELSE [h |-> link(s, p, q), push |-> <<>>, did |-> "refused_q"]
    ELSE LET s == subdivide(h, p)
         IN IF s.ok
            THEN [h |-> link(s, p, q),
                  push |-> [i \in 1..4 |-> <<s.nodes[p].children[i], q>>],
                  did |-> "subdivide_p"]
            ELSE [h |-> link(s, p, q), push |-> <<>>, did |-> "refused_p"]

\* the outcome of one turn: the heap, the pairs pushed, and what was done
refine(h, p, q, F_pq, F_qp) ==
    IF RLt(F_pq, F_eps) /\ RLt(F_qp, F_eps)
    THEN [h |-> link(h, p, q), push |-> <<>>, did |-> "link"]
    ELSE IF RLt(F_qp, F_pq)
    THEN LET s == subdivide(h, q)
         IN IF s.ok
            THEN [h |-> s, push |-> [i \in 1..4 |-> <<p, s.nodes[q].children[i]>>],
                  did |-> "subdivide_q"]
            ELSE [h |-> link(s, p, q), push |-> <<>>, did |-> "refused_q"]
    ELSE LET s == subdivide(h, p)
         IN IF s.ok
            THEN [h |-> s, push |-> [i \in 1..4 |-> <<s.nodes[p].children[i], q>>],
                  did |-> "subdivide_p"]
            ELSE [h |-> link(s, p, q), push |-> <<>>, did |-> "refused_p"]

RefineStep ==
    /\ pc = "refine"
    /\ node_stack # <<>>
    /\ \E cos_p, cos_q \in CosVals, omega_p, omega_q \in OmegaVals,
          from \in StaleReads :
          LET p == Top(node_stack)[1]
              q == Top(node_stack)[2]
              F_pq == estimate_form_factor(cos_p, omega_q)
              F_qp == estimate_form_factor(cos_q, omega_p)
              r == refine([Heap EXCEPT !.overwritten_from = from], p, q, F_pq, F_qp)
          IN /\ SetHeap(r.h)
             /\ node_stack' = Pop(node_stack) \o r.push
             /\ est_below' = (est_below \/ r.did = "link")
             /\ last' = [op |-> "refine", p |-> p, q |-> q, did |-> r.did,
                         est |-> IF RLt(F_pq, F_eps) /\ RLt(F_qp, F_eps) THEN "below"
                                 ELSE IF RLt(F_qp, F_pq) THEN "q_less" ELSE "p_less"]
    /\ pc' = IF node_stack' = <<>> THEN "seed" ELSE "refine"
    /\ UNCHANGED <<scene, solver, nroots, n, qi, iteration, rl_stack, rl_n, refined, calls,
                   examined, pass_links, passes>>

\* ------------------------------------------------------------------------
\* solve_system(): gather sweep, then push-pull sweep, max_iterations times
\* ------------------------------------------------------------------------

\* the children of p pushed last slot first
PushChildrenReversed(ns, stack, p) ==
    stack \o [k \in 1..4 |-> ns[p].children[5 - k]]

\* the children of p as the range-for pushes them on a stack
PushChildren(ns, stack, p) == stack \o ns[p].children

RECURSIVE GatherLinks(_, _, _)
GatherLinks(ns, links, acc) ==
    IF links = <<>> THEN acc
    ELSE GatherLinks(ns, Tail(links),
                     CAdd(acc, CScale(Head(links).form_factor, ns[Head(links).q].rad_shoot)))

\* the patches a depth-first walk over the stack pops, in order
RECURSIVE Walk(_, _, _)
Walk(ns, stack, seen) ==
    IF stack = <<>> THEN seen
    ELSE LET p == Top(stack)
         IN IF is_leaf(ns[p]) THEN Walk(ns, Pop(stack), Append(seen, p))
            ELSE Walk(ns, PushChildren(ns, Pop(stack), p), Append(seen, p))

\* a gather loop that leaves its sum in rad_shoot
GatherNodeIntoShoot(ns, p) ==
    [ns EXCEPT ![p].rad_shoot =
        CMul(ns[p].rho, GatherLinks(ns, ns[p].gathering_from, Color))]

\* a gather loop without the multiplication by rho
GatherNodeNoRho(ns, p) ==
    [ns EXCEPT ![p].rad_gather = GatherLinks(ns, ns[p].gathering_from, Color)]

\* the body of the gather loop for the patch p
GatherNode(ns, p) ==
    [ns EXCEPT ![p].rad_gather =
        CMul(ns[p].rho, GatherLinks(ns, ns[p].gathering_from, Color))]

RECURSIVE GatherLoop(_, _)
GatherLoop(ns, order) ==
    IF order = <<>> THEN ns
    ELSE GatherLoop(GatherNode(ns, Head(order)), Tail(order))

gather_radiosity(ns, in) == GatherLoop(ns, Walk(ns, <<in>>, <<>>))

RECURSIVE push_pull_radiosity(_, _, _)
RECURSIVE PushPullChildren(_, _, _, _, _)
PushPullChildren(ns, p, i, rad_down, rad_up) ==
    IF i > 4 THEN [ns EXCEPT ![p].rad_shoot = CDiv(rad_up, Rat(4))]
    ELSE LET child == ns[p].children[i]
             ns1 == push_pull_radiosity(ns, child, CAdd(ns[p].rad_gather, rad_down))
         IN PushPullChildren(ns1, p, i + 1, rad_down, CAdd(rad_up, ns1[child].rad_shoot))

\* a leaf that drops what its ancestors gathered
push_pull_no_down(ns, p, rad_down) ==
    IF is_leaf(ns[p])
    THEN [ns EXCEPT ![p].rad_shoot = CAdd(ns[p].emission, ns[p].rad_gather)]
    ELSE PushPullChildren(ns, p, 1, rad_down, Color)

push_pull_radiosity(ns, p, rad_down) ==
    IF is_leaf(ns[p])
    THEN [ns EXCEPT ![p].rad_shoot = CAdd(CAdd(ns[p].emission, ns[p].rad_gather), rad_down)]
    ELSE PushPullChildren(ns, p, 1, rad_down, Color)

\* for (auto& p : nodes_) gather_radiosity(p)
RECURSIVE GatherRoots(_, _)
GatherRoots(ns, i) ==
    IF i > nroots THEN ns ELSE GatherRoots(gather_radiosity(ns, Root(i)), i + 1)

\* for (auto& p : nodes_) push_pull_radiosity(p, Color())
RECURSIVE PushPullRoots(_, _)
PushPullRoots(ns, i) ==
    IF i > nroots THEN ns
    ELSE PushPullRoots(push_pull_radiosity(ns, Root(i), Color), i + 1)

\* link.q->rad_shoot of a link whose q is a freed cell reads whatever the
\* memory holds: the data as nodes_ left it, or other data
Dangling(ns) ==
    UNION {{ns[p].gathering_from[k].q : k \in DOMAIN ns[p].gathering_from} :
              p \in DOMAIN ns} \cap freed

RECURSIVE Reused(_, _)
Reused(ns, cells) ==
    IF cells = {} THEN ns
    ELSE LET a == CHOOSE a \in cells : TRUE
         IN Reused([ns EXCEPT ![a].rad_shoot = JunkColor], cells \ {a})

GatherSweep ==
    /\ pc = "solve"
    /\ iteration > 0
    /\ \E cells \in SUBSET Dangling(nodes) : nodes' = GatherRoots(Reused(nodes, cells), 1)
    /\ pc' = "pushpull"
    /\ last' = [op |-> "gather"]
    /\ UNCHANGED <<scene, solver, nroots, subdivided_tris, mesh, n, qi, node_stack, iteration,
                   rl_stack, rl_n, refined, next_lid, stale_read, est_below, calls, examined,
                   pass_links, passes>>

PushPullSweep ==
    /\ pc = "pushpull"
    /\ nodes' = PushPullRoots(nodes, 1)
    /\ iteration' = iteration - 1
    /\ pc' = "solve"
    /\ last' = [op |-> "pushpull"]
    /\ UNCHANGED <<scene, solver, nroots, subdivided_tris, mesh, n, qi, node_stack, rl_stack,
                   rl_n, refined, next_lid, stale_read, est_below, calls, examined, pass_links, passes>>

\* ------------------------------------------------------------------------
\* refine_links(): the link refinement pass
\* ------------------------------------------------------------------------

AllLinks(ns) ==
    UNION {{[p |-> p, q |-> ns[p].gathering_from[k].q,
             form_factor |-> ns[p].gathering_from[k].form_factor,
             lid |-> ns[p].gathering_from[k].lid] :
               k \in 1..Len(ns[p].gathering_from)} : p \in 1..Len(ns)}

Frame(p) == [p |-> p, stage |-> "enter", child |-> 1, size |-> 0, i |-> 1,
             refined |-> FALSE]

\* while (i < links.size()), the length the sequence has now
MoreLinksLive(f, links) == f.i <= Len(links)

\* while (i < size), with size the length the sequence had before the loop,
\* less the links erased
MoreLinks(f, links) == f.i <= f.size

\* Runs refine_links from the call stack st (root index rn, result so far rf) up
\* to the next call of refine_link, or to the end of the pass.
RECURSIVE Advance(_, _, _, _)
Advance(ns, st, rn, rf) ==
    IF st = <<>>
    THEN IF rn < nroots THEN Advance(ns, <<Frame(Root(rn + 1))>>, rn + 1, rf)
         ELSE [stack |-> st, rl_n |-> rn, refined |-> rf]
    ELSE LET f == Top(st)
             links == ns[f.p].gathering_from
         IN CASE f.stage = "enter" ->
                   IF ~is_leaf(ns[f.p])
                   THEN Advance(ns, Pop(st) \o <<[f EXCEPT !.stage = "children"]>>, rn, rf)
                   ELSE Advance(ns, Pop(st) \o <<[f EXCEPT !.stage = "links",
                                                          !.size = Len(links)]>>, rn, rf)
              [] f.stage = "children" ->
                   IF f.child <= 4
                   THEN Advance(ns, Pop(st) \o <<[f EXCEPT !.child = @ + 1],
                                                  Frame(ns[f.p].children[f.child])>>, rn, rf)
                   ELSE Advance(ns, Pop(st) \o <<[f EXCEPT !.stage = "links",
                                                          !.size = Len(links)]>>, rn, rf)
              [] f.stage = "links" ->
                   IF MoreLinks(f, links)
                   THEN [stack |-> st, rl_n |-> rn, refined |-> rf]
                   ELSE IF Len(st) = 1
                   THEN Advance(ns, <<>>, rn, rf \/ f.refined)
                   ELSE LET up == st[Len(st) - 1]
                        IN Advance(ns, SubSeq(st, 1, Len(st) - 2)
                                         \o <<[up EXCEPT !.refined = @ \/ f.refined]>>,
                                   rn, rf)

\* an erase that removes nothing
RemoveNothing(s, k) == s

RemoveAt(s, k) == SubSeq(s, 1, k - 1) \o SubSeq(s, k + 1, Len(s))

\* the test of the red channel alone
above_threshold_red(oracle) == RGt(oracle[1], BF_eps)

\* oracle.r > BF_eps_ || oracle.g > BF_eps_ || oracle.b > BF_eps_
above_threshold(oracle) ==
    RGt(oracle[1], BF_eps) \/ RGt(oracle[2], BF_eps) \/ RGt(oracle[3], BF_eps)

\* refine_link with the test of the side turned round
refine_link_other_side(h, p, link_node) ==
    LET q == link_node.q
        tri_p == get_triangle(h.tris, h.nodes[p])
        tri_q == get_triangle(h.tris, h.nodes[q])
        oracle == CScale(RMul(tri_q.area, link_node.form_factor), h.nodes[q].rad_shoot)
        F_pq == link_node.form_factor
        F_qp == RDiv(RMul(F_pq, tri_p.area), tri_q.area)
    IN IF above_threshold(oracle)
       THEN IF RLt(F_qp, F_pq)
            THEN LET s == subdivide(h, p)
                 IN IF s.ok
                    THEN [h |-> LinkAll(s, [k \in 1..4 |-> <<s.nodes[p].children[k], q>>]),
                          result |-> TRUE, did |-> "subdivide_p"]
                    ELSE [h |-> s, result |-> FALSE, did |-> "refused_p"]
            ELSE LET s == subdivide(h, q)
                 IN IF s.ok
                    THEN [h |-> LinkAll(s, [k \in 1..4 |-> <<p, s.nodes[q].children[k]>>]),
                          result |-> TRUE, did |-> "subdivide_q"]
                    ELSE [h |-> s, result |-> FALSE, did |-> "refused_q"]
       ELSE [h |-> h, result |-> FALSE, did |-> "keep"]

refine_link(h, p, link_node) ==
    LET q == link_node.q
        tri_p == get_triangle(h.tris, h.nodes[p])
        tri_q == get_triangle(h.tris, h.nodes[q])
        oracle == CScale(RMul(tri_q.area, link_node.form_factor), h.nodes[q].rad_shoot)
        F_pq == link_node.form_factor
        F_qp == RDiv(RMul(F_pq, tri_p.area), tri_q.area)
    IN IF above_threshold(oracle)
       THEN IF RLt(F_pq, F_qp)
            THEN LET s == subdivide(h, p)
                 IN IF s.ok
                    THEN [h |-> LinkAll(s, [k \in 1..4 |-> <<s.nodes[p].children[k], q>>]),
                          result |-> TRUE, did |-> "subdivide_p"]
                    ELSE [h |-> s, result |-> FALSE, did |-> "refused_p"]
            ELSE LET s == subdivide(h, q)
                 IN IF s.ok
                    THEN [h |-> LinkAll(s, [k \in 1..4 |-> <<p, s.nodes[q].children[k]>>]),
                          result |-> TRUE, did |-> "subdivide_q"]
                    ELSE [h |-> s, result |-> FALSE, did |-> "refused_q"]
       ELSE [h |-> h, result |-> FALSE, did |-> "keep"]

\* the end of solve_system and the call of refine_links()
StartLinks ==
    /\ pc = "solve"
    /\ iteration = 0
    /\ LET a == Advance(nodes, <<>>, 0, FALSE)
       IN /\ rl_stack' = a.stack
          /\ rl_n' = a.rl_n
          /\ refined' = a.refined
    /\ pc' = "links"
    /\ examined' = <<>>
    /\ pass_links' = AllLinks(nodes)
    /\ last' = [op |-> "refine_links"]
    /\ UNCHANGED <<scene, solver, nodes, nroots, subdivided_tris, mesh, n, qi, node_stack,
                   iteration, next_lid, stale_read, est_below, calls, passes>>

\* one turn of the loop over p's links: refine_link, then erase or ++i
RefineLinkStep ==
    /\ pc = "links"
    /\ rl_stack # <<>>
    /\ \E from \in StaleReads,
          cells \in SUBSET ({nodes[Top(rl_stack).p].gathering_from[Top(rl_stack).i].q}
                               \cap freed) :
       LET f == Top(rl_stack)
           link_node == nodes[f.p].gathering_from[f.i]
           r == refine_link([Heap EXCEPT !.overwritten_from = from,
                                         !.nodes = Reused(nodes, cells)],
                            f.p, link_node)
           h1 == IF r.result
                 THEN [r.h EXCEPT !.nodes[f.p].gathering_from = RemoveAt(@, f.i)]
                 ELSE r.h
           f1 == IF r.result
                 THEN [f EXCEPT !.size = @ - 1, !.refined = TRUE]
                 ELSE [f EXCEPT !.i = @ + 1]
           a == Advance(h1.nodes, Pop(rl_stack) \o <<f1>>, rl_n, refined)
       IN /\ SetHeap(h1)
          /\ rl_stack' = a.stack
          /\ rl_n' = a.rl_n
          /\ refined' = a.refined
          /\ examined' = Append(examined, link_node.lid)
          /\ last' = [op |-> "refine_link", p |-> f.p, q |-> link_node.q,
                      lid |-> link_node.lid, did |-> r.did]
    /\ UNCHANGED <<scene, solver, nroots, pc, n, qi, node_stack, iteration, est_below, calls,
                   pass_links, passes>>

\* refine_links() returns: done = !refined
LinksDone ==
    /\ pc = "links"
    /\ rl_stack = <<>>
    /\ passes' = passes + 1
    /\ pc' = IF refined THEN "solve" ELSE "done"
    /\ iteration' = IF refined THEN max_iterations ELSE iteration
    /\ last' = [op |-> "pass_end"]
    /\ UNCHANGED <<scene, solver, nodes, nroots, subdivided_tris, mesh, n, qi, node_stack,
                   rl_stack, rl_n, refined, next_lid, stale_read, est_below, calls, examined,
                   pass_links>>

\* ------------------------------------------------------------------------
\* triangles(), triangle_index(), radiosity()
\* ------------------------------------------------------------------------

\* for (const auto& root : nodes_): the walk of every root, one after the other
RECURSIVE RootsWalk(_, _, _)
RootsWalk(ns, i, seen) ==
    IF i > nroots THEN seen ELSE RootsWalk(ns, i + 1, Walk(ns, <<Root(i)>>, seen))

\* the leaves in the order the walks reach them
LeafSeq(ns) == SelectSeq(RootsWalk(ns, 1, <<>>), LAMBDA p : is_leaf(ns[p]))

triangles ==
    [k \in 1..Len(LeafSeq(nodes)) |-> get_triangle(subdivided_tris, nodes[LeafSeq(nodes)[k]])]

radiosity ==
    [k \in 1..Len(LeafSeq(nodes)) |-> nodes[LeafSeq(nodes)[k]].rad_shoot]

\* std::unordered_map::emplace: an existing key keeps its value
Emplace(index, key, value) ==
    IF key \in DOMAIN index THEN index
    ELSE [k \in DOMAIN index \cup {key} |-> IF k = key THEN value ELSE index[k]]

RECURSIVE IndexLoop(_, _, _)
IndexLoop(ns, leaves, index) ==
    IF leaves = <<>> THEN index
    ELSE IndexLoop(ns, Tail(leaves),
                   Emplace(index, ns[Head(leaves)].tri_id, Cardinality(DOMAIN index)))

triangle_index == IndexLoop(nodes, LeafSeq(nodes), <<>>)

Next ==
    \/ CreateNodes
    \/ SeedRefine
    \/ SeedDone
    \/ RefineStep
    \/ GatherSweep
    \/ PushPullSweep
    \/ StartLinks
    \/ RefineLinkStep
    \/ LinksDone

Spec == Init /\ [][Next]_vars

\* the caller invokes compute() again on the same solver; the second call is
\* followed for the scenes whose hierarchy, twice over, stays within the bound
ComputeAgain ==
    /\ pc = "done"
    /\ computes < MaxComputes
    /\ (computes + 1) * SumSeq([i \in 1..num_triangles |-> TreeSize(tree[i].area, A_eps)])
          <= MaxPatches
    /\ pc' = "new"
    /\ rad_first' = IF computes = 1 THEN radiosity ELSE rad_first
    /\ last' = [op |-> "compute_again"]
    /\ UNCHANGED <<scene, base, freed, computes, nodes, nroots, subdivided_tris, mesh, n,
                   qi, node_stack, iteration, rl_stack, rl_n, refined, next_lid,
                   stale_read, est_below, calls, examined, pass_links, passes>>

NextAgain ==
    \/ CreateNodes
    \/ SeedRefine
    \/ SeedDone
    \/ RefineStep
    \/ GatherSweep
    \/ PushPullSweep
    \/ StartLinks
    \/ RefineLinkStep
    \/ LinksDone
    \/ ComputeAgain

\* one solver, compute() called twice
AgainSpec == Init /\ [][NextAgain]_vars

\* a scene with a root triangle that can be subdivided twice
DeepArea == Rat(16)
DeepScenes(e) ==
    {WithFace(s) : s \in
        {s \in [1..2 -> [area : {e, RMul(DeepArea, e)},
                         emissive : {m.emissive : m \in Materials},
                         diffuse : {m.diffuse : m \in Materials}]] :
            /\ \A i \in 1..2 : [emissive |-> s[i].emissive, diffuse |-> s[i].diffuse] \in Materials
            /\ s[1].emissive # s[2].emissive
            /\ s[1].area # s[2].area}}

\* the runs of such a scene, followed as far as the bound on its patches
DeepBound == Len(nodes) <= MaxDeepPatches
DeepNext ==
    \/ DeepBound /\ CreateNodes
    \/ DeepBound /\ SeedRefine
    \/ DeepBound /\ SeedDone
    \/ DeepBound /\ RefineStep
    \/ DeepBound /\ GatherSweep
    \/ DeepBound /\ PushPullSweep
    \/ DeepBound /\ StartLinks
    \/ DeepBound /\ RefineLinkStep
    \/ DeepBound /\ LinksDone

DeepSpec == InitWith({<<Rat(1), t>> : t \in DeepScenes(Rat(1))}) /\ [][DeepNext]_vars

\* compute() is a sequential program: it keeps running until it returns.  This
\* is WF_vars(Next) with ENABLED <<Next>>_vars written out as pc # "done".
FairSpec == Spec /\ ([]<><<Next>>_vars \/ []<>(pc = "done"))

\* ------------------------------------------------------------------------
\* Properties
\* ------------------------------------------------------------------------

Patches == DOMAIN nodes \ freed
Internal == {p \in Patches : ~is_leaf(nodes[p])}
RGe(x, y) == ~RLt(x, y)

\* C1: every link p<-q stored in a gathering_from sequence connects patches of
\* different root triangles, during seeding and in every refinement pass.
C1_NoSelfRootLinks ==
    \A l \in AllLinks(nodes) : nodes[l.p].root_tri_id # nodes[l.q].root_tri_id

\* compute() has returned and a subdivided patch owns a link
C1_Witness ==
    /\ pc = "done"
    /\ \E l \in AllLinks(nodes) : ~is_root(nodes[l.p])
    /\ \E l \in AllLinks(nodes) : ~is_root(nodes[l.q])

\* C2: every patch has area >= A_eps or is a leaf, and no child created by
\* subdivide has an area below A_eps.
C2_AreaFloor ==
    \A p \in Patches :
        /\ RGe(nodes[p].area, A_eps) \/ is_leaf(nodes[p])
        /\ nodes[p].parent # 0 => RGe(nodes[p].area, A_eps)

\* a patch was subdivided down to exactly the floor and a further subdivision
\* has just been refused
C2_Witness ==
    /\ \E p \in Internal : \A k \in 1..4 : nodes[nodes[p].children[k]].area = A_eps
    /\ last.op \in {"refine", "refine_link"}
    /\ last.did \in {"refused_p", "refused_q"}

\* the number of patches the area floor allows the scene to grow to
PatchBound == SumSeq([i \in 1..num_triangles |-> TreeSize(tree[i].area, A_eps)])

\* C3: compute() terminates, and the pass of refine_links that refines nothing
\* comes after at most PatchBound passes.
C3_Terminates == <>(pc = "done") /\ [](passes <= PatchBound)

\* compute() has returned after a pass that refined and a later one that did not
C3_Witness == pc = "done" /\ passes >= 2

\* C4: a subdivided patch has exactly four children, each with a quarter of its
\* area and with its rho, emission and root triangle; their areas sum to its area.
C4_FourChildren ==
    \A p \in Patches :
        /\ Len(nodes[p].children) \in {0, 4}
        /\ ~is_leaf(nodes[p]) =>
              LET c == [k \in 1..4 |-> nodes[nodes[p].children[k]]]
              IN /\ Cardinality({nodes[p].children[k] : k \in 1..4}) = 4
                 /\ \A k \in 1..4 :
                       /\ c[k].area = RDiv(nodes[p].area, Rat(4))
                       /\ c[k].rho = nodes[p].rho
                       /\ c[k].emission = nodes[p].emission
                       /\ c[k].root_tri_id = nodes[p].root_tri_id
                       /\ c[k].parent = p
                 /\ RAdd(RAdd(c[1].area, c[2].area), RAdd(c[3].area, c[4].area))
                       = nodes[p].area

\* subdivide has just succeeded inside refine, and inside refine_link
C4_Witness ==
    /\ Internal # {}
    /\ last.op \in {"refine", "refine_link"}
    /\ last.did \in {"subdivide_p", "subdivide_q"}


\* the link that the next turn of the loop of refine_links hands to refine_link
CurFrame == Top(rl_stack)
CurLink == nodes[CurFrame.p].gathering_from[CurFrame.i]
CurEnergy ==
    CScale(RMul(nodes[CurLink.q].area, CurLink.form_factor), nodes[CurLink.q].rad_shoot)
CurAbove == \E k \in 1..3 : RGt(CurEnergy[k], BF_eps)
CurSide ==
    IF RLt(CurLink.form_factor,
           RDiv(RMul(CurLink.form_factor, nodes[CurFrame.p].area), nodes[CurLink.q].area))
    THEN CurFrame.p ELSE CurLink.q
CurRefused ==
    is_leaf(nodes[CurSide]) /\ RLt(RDiv(nodes[CurSide].area, Rat(4)), A_eps)
Ends(ls) == {<<l.p, l.q>> : l \in ls}

\* C5: a link p<-q visited by the pass is kept, with the link graph and the
\* hierarchy unchanged, when no channel of its energy exceeds BF_eps or when the
\* chosen side (p if F_pq < F_pq*area(p)/area(q), else q) refuses to subdivide;
\* otherwise it is removed and exactly four links are installed, from q to the
\* four children of p or from the four children of q to p.
C5_RefineLink ==
    [][(pc = "links" /\ rl_stack # <<>>) =>
          IF ~CurAbove \/ CurRefused
          THEN nodes' = nodes
          ELSE /\ AllLinks(nodes) \ AllLinks(nodes')
                    = {[p |-> CurFrame.p, q |-> CurLink.q,
                        form_factor |-> CurLink.form_factor, lid |-> CurLink.lid]}
               /\ Cardinality(AllLinks(nodes') \ AllLinks(nodes)) = 4
               /\ Len(nodes'[CurSide].children) = 4
               /\ Ends(AllLinks(nodes') \ AllLinks(nodes))
                    = IF CurSide = CurFrame.p
                      THEN {<<nodes'[CurSide].children[k], CurLink.q>> : k \in 1..4}
                      ELSE {<<CurFrame.p, nodes'[CurSide].children[k]>> : k \in 1..4}]_vars

\* refine_link has just replaced a link by four links to the children of q
C5_Witness ==
    /\ last.op = "refine_link"
    /\ last.did = "subdivide_q"
    /\ Cardinality({l \in AllLinks(nodes) : l.p = last.p /\ nodes[l.q].parent = last.q}) = 4

PassLids == {l.lid : l \in pass_links}
Examined == {examined[k] : k \in DOMAIN examined}
PassOver == pc = "links" /\ rl_stack = <<>>

\* C6: within one pass of refine_links no link is examined twice, only links
\* that existed when the pass began are examined, and when the pass is over
\* every one of them has been examined.
C6_ExaminedOnce ==
    /\ Cardinality(Examined) = Len(examined)
    /\ Examined \subseteq PassLids
    /\ PassOver => Examined = PassLids

\* a pass is over in which links were created, in the sequence of p and in the
\* sequences of children of p, and were not examined
C6_Witness ==
    /\ PassOver
    /\ examined # <<>>
    /\ \E l \in AllLinks(nodes) : l.lid \notin PassLids /\ is_root(nodes[l.p])
    /\ \E l \in AllLinks(nodes) : l.lid \notin PassLids /\ ~is_root(nodes[l.p])

Seeded == pc \notin {"new", "seed", "refine"}
CallsOf(pairs) == Cardinality({k \in DOMAIN calls : calls[k] \in pairs})

\* C7 as stated: refine is invoked exactly once per unordered pair of distinct
\* root triangles, never for (p, q) and again for (q, p).
C7_OncePerUnorderedPair ==
    \A a, b \in 1..nroots :
        a < b => /\ CallsOf({<<a, b>>, <<b, a>>}) <= 1
                 /\ Seeded => CallsOf({<<a, b>>, <<b, a>>}) = 1

\* C7 amended: refine is invoked exactly once per ordered pair (p, q) of
\* distinct root triangles, so once for (p, q) and once for (q, p), and never
\* for a pair of the same root triangle.
C7_OncePerOrderedPair ==
    \A a, b \in 1..nroots :
        /\ CallsOf({<<a, b>>}) <= 1
        /\ nodes[a].root_tri_id = nodes[b].root_tri_id => CallsOf({<<a, b>>}) = 0
        /\ (Seeded /\ nodes[a].root_tri_id # nodes[b].root_tri_id)
              => CallsOf({<<a, b>>}) = 1

\* seeding of a scene of three root triangles is over: six calls
C7_Witness == Seeded /\ nroots = 3 /\ Len(calls) = 6

TwoFloorRoots ==
    /\ num_triangles = 2
    /\ \A i \in 1..2 : RLt(RDiv(tree[i].area, Rat(4)), A_eps)
TotalLinks == Cardinality(AllLinks(nodes))

\* C8 as stated: with two root triangles that both refuse to subdivide and
\* estimates not both below F_eps, compute() ends with no patch subdivided and
\* one link in the whole link graph.
C8_OneLink ==
    (pc = "done" /\ TwoFloorRoots /\ ~est_below) =>
        (Len(nodes) = 2 /\ TotalLinks = 1)

\* C8 amended: such a scene never subdivides a patch, compute() terminates
\* after one pass, and the link graph ends with two links, one per direction.
C8_TwoLinks ==
    /\ [](TwoFloorRoots => <>(pc = "done"))
    /\ []((TwoFloorRoots /\ ~est_below) =>
            /\ Internal = {}
            /\ pc = "done" =>
                  /\ passes = 1
                  /\ Ends(AllLinks(nodes)) = {<<1, 2>>, <<2, 1>>}
                  /\ TotalLinks = 2)

\* compute() has returned for such a scene, both links made after a refusal
C8_Witness ==
    /\ pc = "done"
    /\ TwoFloorRoots
    /\ ~est_below
    /\ TotalLinks = 2

Leaves == {p \in Patches : is_leaf(nodes[p])}

\* C9: triangle_index() maps the identifiers of the leaves one-to-one onto
\* 0..L-1, and the leaf with index i is the leaf whose triangle is element i of
\* triangles() and whose rad_shoot is element i of radiosity().
C9_IndexBijection ==
    \A index \in {triangle_index}, tris \in {triangles}, rad \in {radiosity} :
        /\ Len(tris) = Cardinality(Leaves)
        /\ Len(rad) = Cardinality(Leaves)
        /\ DOMAIN index = {nodes[p].tri_id : p \in Leaves}
        /\ \A p, r \in Leaves : nodes[p].tri_id = nodes[r].tri_id => p = r
        /\ {index[t] : t \in DOMAIN index} = 0..(Cardinality(Leaves) - 1)
        /\ \A p \in Leaves :
              /\ tris[index[nodes[p].tri_id] + 1] = get_triangle(subdivided_tris, nodes[p])
              /\ rad[index[nodes[p].tri_id] + 1] = nodes[p].rad_shoot

\* compute() has returned with root leaves and subdivided leaves whose
\* radiosities differ
C9_Witness ==
    /\ pc = "done"
    /\ \E p, r \in Leaves :
          /\ is_root(nodes[p])
          /\ ~is_root(nodes[r])
          /\ nodes[p].rad_shoot # nodes[r].rad_shoot

Pos(seq, x) == CHOOSE k \in DOMAIN seq : seq[k] = x
Range(seq) == {seq[k] : k \in DOMAIN seq}
Under(p) == Range(Walk(nodes, <<p>>, <<>>))

\* roots in insertion order, in the walk all that is given as order
RootsInOrder(order) ==
    \A a, b \in 1..nroots : a < b =>
        \A x \in Under(a), y \in Under(b) : Pos(order, x) < Pos(order, y)

\* the patches under child i of p come before those under child j
ChildBefore(order, leaves, p, i, j) ==
    \A x \in Under(nodes[p].children[i]), y \in Under(nodes[p].children[j]) :
        /\ Pos(order, x) < Pos(order, y)
        /\ (x \in Leaves /\ y \in Leaves) => Pos(leaves, x) < Pos(leaves, y)

\* C10 as stated: the traversals take the roots in insertion order and the
\* children of a patch in slot order 0..3.
C10_SlotOrder ==
    \A order \in {RootsWalk(nodes, 1, <<>>)}, leaves \in {LeafSeq(nodes)} :
        /\ RootsInOrder(order)
        /\ \A p \in Internal : \A i, j \in 1..4 :
              i < j => ChildBefore(order, leaves, p, i, j)

\* C10 amended: the traversals take the roots in insertion order and the
\* children of a patch in reverse slot order 3..0 (the child pushed last is
\* popped first), so the leaves under child 3 come before those under child 2.
C10_ReverseSlotOrder ==
    \A order \in {RootsWalk(nodes, 1, <<>>)}, leaves \in {LeafSeq(nodes)} :
        /\ RootsInOrder(order)
        /\ \A p \in Internal : \A i, j \in 1..4 :
              i < j => /\ ChildBefore(order, leaves, p, j, i)
                       /\ Pos(order, p) < Pos(order, nodes[p].children[j])

\* a subdivided root stands before a later root in a scene of three
C10_Witness ==
    /\ nroots = 3
    /\ 1 \in Internal
    /\ pc = "done"

\* C11: compute() is idempotent: radiosity() after a second compute() on the
\* same solver equals radiosity() after the first, in length, values and order.
C11_Idempotent ==
    (pc = "done" /\ computes = 2) => radiosity = rad_first

\* C12: the q of every stored link is a patch of the hierarchy, and the parent
\* of every patch below the roots is the patch that holds it among its children;
\* no link and no parent pointer dangles.
C12_NoDangling ==
    /\ \A l \in AllLinks(nodes) : l.q \in Patches
    /\ \A p \in Patches :
          nodes[p].parent # 0 =>
              /\ nodes[p].parent \in Patches
              /\ p \in Range(nodes[nodes[p].parent].children)

\* the patch the subdivide of the last step was called on
Target(l) == IF l.did = "subdivide_p" THEN l.p ELSE l.q
Subdivided(l) ==
    /\ l.op \in {"refine", "refine_link"}
    /\ l.did \in {"subdivide_p", "subdivide_q"}

\* C13: subdivide on a patch that is already internal returns success and
\* changes nothing: the patch keeps its four children, no patch is created, no
\* triangle identifier is allocated, the mesh is not split and no radiosity
\* field is reset.
C13_SubdivideIdempotent ==
    [][(Subdivided(last') /\ ~is_leaf(nodes[Target(last')])) =>
          /\ Len(nodes') = Len(nodes)
          /\ nodes'[Target(last')].children = nodes[Target(last')].children
          /\ subdivided_tris' = subdivided_tris
          /\ mesh' = mesh
          /\ \A p \in Patches :
                /\ nodes'[p].rad_gather = nodes[p].rad_gather
                /\ nodes'[p].rad_shoot = nodes[p].rad_shoot
                /\ nodes'[p].children = nodes[p].children]_vars

\* refine has just had success from subdivide on a patch whose children already
\* owned links, so a patch that was internal before the call
C13_Witness ==
    /\ last.op = "refine"
    /\ last.did \in {"subdivide_p", "subdivide_q"}
    /\ \E k \in 1..4 : nodes[nodes[Target(last)].children[k]].gathering_from # <<>>

NoGather(ns) == [p \in DOMAIN ns |-> [ns[p] EXCEPT !.rad_gather = Color]]
NoShoot(ns) == [p \in DOMAIN ns |-> [ns[p] EXCEPT !.rad_shoot = Color]]

\* C14: solve_system changes neither the hierarchy nor the link graph; its
\* gather sweep writes only rad_gather and its push-pull sweep only rad_shoot.
C14_SolveFrame ==
    [][/\ (pc = "solve" /\ iteration > 0) =>
             /\ NoGather(nodes') = NoGather(nodes)
             /\ subdivided_tris' = subdivided_tris /\ mesh' = mesh
       /\ pc = "pushpull" =>
             /\ NoShoot(nodes') = NoShoot(nodes)
             /\ subdivided_tris' = subdivided_tris /\ mesh' = mesh]_vars

\* a sweep over a subdivided hierarchy has just changed rad_gather and rad_shoot
C14_Witness ==
    /\ last.op = "pushpull"
    /\ Internal # {}
    /\ \E p \in Patches : nodes[p].rad_gather # Color
    /\ \E p \in Patches : nodes[p].rad_shoot # nodes[p].emission

\* the patches under the root triangles that reflect nothing
Black == {p \in Patches : tree[nodes[p].root_tri_id + 1].diffuse = Color}

\* C15: after every solver iteration every patch under a root triangle with
\* rho = (0,0,0) has rad_gather = (0,0,0), whatever links it owns, and every
\* leaf under it has rad_shoot equal to its emission.
C15_BlackReceiver ==
    last.op = "pushpull" =>
        \A p \in Black :
            /\ nodes[p].rad_gather = Color
            /\ is_leaf(nodes[p]) => nodes[p].rad_shoot = nodes[p].emission

\* an iteration has ended in which a subdivided patch that reflects nothing
\* gathered from a patch that shoots
C15_Witness ==
    /\ last.op = "pushpull"
    /\ passes >= 1
    /\ \E l \in AllLinks(nodes) :
          /\ l.p \in Black
          /\ ~is_root(nodes[l.p])
          /\ nodes[l.q].rad_shoot # Color

\* what p and its ancestors gathered
RECURSIVE GatherAbove(_)
GatherAbove(p) ==
    IF p = 0 THEN Color ELSE CAdd(nodes[p].rad_gather, GatherAbove(nodes[p].parent))

ChildrenShoot(p) ==
    CAdd(CAdd(nodes[nodes[p].children[1]].rad_shoot, nodes[nodes[p].children[2]].rad_shoot),
         CAdd(nodes[nodes[p].children[3]].rad_shoot, nodes[nodes[p].children[4]].rad_shoot))

\* C16: after each push-pull sweep a leaf's rad_shoot is its emission plus the
\* rad_gather of the leaf and of all its ancestors, and an internal patch's
\* rad_shoot is the sum of its four children's rad_shoot divided by 4.
C16_PushPull ==
    last.op = "pushpull" =>
        \A p \in Patches :
            IF is_leaf(nodes[p])
            THEN nodes[p].rad_shoot = CAdd(nodes[p].emission, GatherAbove(p))
            ELSE nodes[p].rad_shoot = CDiv(ChildrenShoot(p), Rat(4))

\* a sweep has ended with a leaf that gathered and whose parent gathered too
C16_Witness ==
    /\ last.op = "pushpull"
    /\ \E p \in Leaves :
          /\ nodes[p].parent # 0
          /\ nodes[p].rad_gather # Color
          /\ nodes[nodes[p].parent].rad_gather # Color

\* the pair the turn of refine that ends in the next state works on, how its
\* two estimates compared (both below F_eps, else F_qp < F_pq or not), and the
\* side the rule picks
TurnP == last'.p
TurnQ == last'.q
TurnBelow == last'.est = "below"
TurnSide == IF last'.est = "q_less" THEN TurnQ ELSE TurnP
TurnRefused ==
    is_leaf(nodes[TurnSide]) /\ RLt(RDiv(nodes[TurnSide].area, Rat(4)), A_eps)
TurnPairs ==
    IF TurnSide = TurnQ
    THEN [k \in 1..4 |-> <<TurnP, nodes'[TurnQ].children[k]>>]
    ELSE [k \in 1..4 |-> <<nodes'[TurnP].children[k], TurnQ>>]

\* C17: a pair (p, q) processed by refine has exactly one of two outcomes: one
\* link p<-q with the oracle's weight is created and nothing is subdivided or
\* scheduled (when both estimates are below F_eps, or when the chosen side, q if
\* F_qp < F_pq and else p, refuses to subdivide), or the chosen side is
\* subdivided and the four (child, other) pairs are scheduled and no link is
\* created.
C17_LinkOrRecurse ==
    [][pc = "refine" =>
          IF TurnBelow \/ TurnRefused
          THEN /\ AllLinks(nodes) \subseteq AllLinks(nodes')
               /\ AllLinks(nodes') \ AllLinks(nodes)
                     = {[p |-> TurnP, q |-> TurnQ, form_factor |-> form, lid |-> next_lid]}
               /\ Len(nodes') = Len(nodes)
               /\ Internal = {p \in Patches : ~is_leaf(nodes'[p])}
               /\ node_stack' = Pop(node_stack)
          ELSE /\ AllLinks(nodes') = AllLinks(nodes)
               /\ ~is_leaf(nodes'[TurnSide])
               /\ node_stack' = Pop(node_stack) \o TurnPairs]_vars

\* a turn of refine has just linked after a refusal, in a hierarchy in which an
\* earlier turn subdivided
C17_Witness ==
    /\ last.op = "refine"
    /\ last.did \in {"refused_p", "refused_q"}
    /\ last.est # "below"
    /\ Internal # {}

\* the links that carry the interaction of the leaves a and b: p is a or an
\* ancestor of a, q is b or an ancestor of b
Covering(links, under, a, b) == {l \in links : a \in under[l.p] /\ b \in under[l.q]}

\* C18: once seeding has finished, so also after every pass of refine_links,
\* every ordered pair of leaves of different root triangles is covered by
\* exactly one link.
C18_ExactCover ==
    Seeded =>
        \A links \in {AllLinks(nodes)}, under \in {[p \in Patches |-> Under(p)]} :
            \A a, b \in Leaves :
                nodes[a].root_tri_id # nodes[b].root_tri_id
                    => Cardinality(Covering(links, under, a, b)) = 1

\* a pass that refined is over, with a link that stands for the leaves under an
\* internal patch and a link between leaves below the roots
C18_Witness ==
    /\ last.op = "pass_end"
    /\ refined
    /\ \E l \in AllLinks(nodes) : ~is_leaf(nodes[l.p]) \/ ~is_leaf(nodes[l.q])
    /\ \E l \in AllLinks(nodes) : ~is_root(nodes[l.p]) \/ ~is_root(nodes[l.q])

\* the energy of the link l, and the side the refinement rule would subdivide
Energy(l) ==
    CScale(RMul(get_triangle(subdivided_tris, nodes[l.q]).area, l.form_factor),
           nodes[l.q].rad_shoot)
Faint(l) == \A k \in 1..3 : ~RGt(Energy(l)[k], BF_eps)
RuleSide(l) ==
    IF RLt(l.form_factor,
           RDiv(RMul(l.form_factor, get_triangle(subdivided_tris, nodes[l.p]).area),
                get_triangle(subdivided_tris, nodes[l.q]).area))
    THEN l.p ELSE l.q
AtFloor(p) == is_leaf(nodes[p]) /\ RLt(RDiv(nodes[p].area, Rat(4)), A_eps)

\* C19: when compute() returns, every link p<-q has every channel of
\* q.rad_shoot * area(q) * form_factor at most BF_eps, or the side the
\* refinement rule would subdivide is a leaf at the area floor.
C19_NoRefinableLeft ==
    pc = "done" => \A l \in AllLinks(nodes) : Faint(l) \/ AtFloor(RuleSide(l))

\* compute() has returned after a pass that refined, with a link below the
\* threshold and a link above it whose side is at the floor
C19_Witness ==
    /\ pc = "done"
    /\ passes >= 2
    /\ \E l \in AllLinks(nodes) : Faint(l)
    /\ \E l \in AllLinks(nodes) : ~Faint(l) /\ AtFloor(RuleSide(l))

\* C20: subdivide never reads the triangle of p through the reference it took
\* into subdivided_tris_ after a turn of its loop has appended to that vector.
C20_NoStaleRead == ~stale_read

====
